---------------------------- MODULE Spec2Model ----------------------------
(***************************************************************************)
(* A model of rwester/geospatial:                                          *)
(*   src/haversine.py  haversine, closest_geocode, haversine_dist_matrix   *)
(*   src/googleAPI.py  GoogleMapsAPI.get_geocode, GoogleMapsAPI.get_distance*)
(*                                                                         *)
(* Floating point numbers are modelled in fixed point: a real x is the     *)
(* integer x * Scale, rounded toward zero (sign-symmetric, as IEEE         *)
(* rounding is).  numpy arrays are functions over 0..n-1.                  *)
(***************************************************************************)
EXTENDS Integers, Sequences, FiniteSets, TLC

VARIABLES
    \* ---- src/haversine.py: the arguments of the two calls
    lat_lon_tuple,    \* the query coordinate (degrees)
    lat_lon_matrix,   \* [shape |-> <<n, c>>, data |-> rows 0..n-1 of c columns]
    n_closest,
    return_dist,
    units,
    \* ---- closest_geocode
    cg_pc,            \* "ready" | "returned" | "raised"
    cg_dist,          \* the local dist, as computed at line 51
    cg_ret,           \* what the call returned or raised
    \* ---- haversine_dist_matrix
    hdm_pc,           \* "ready" | "loop" | "returned" | "raised"
    hdm_i,            \* the loop variable i of line 74
    dist_mtrx,        \* the matrix being filled
    hdm_writes,       \* history: how often each row of dist_mtrx was assigned
    hdm_exc,          \* the exception raised, "" when none
    \* ---- src/googleAPI.py: the attributes of the GoogleMapsAPI object
    key,
    dailylimit,
    limitpersecond,
    geocode_result,
    dist_result,
    \* ---- the method being executed and its locals
    pc,               \* "idle", or the step of get_geocode / get_distance
    args,             \* the arguments of the call
    gd_shape,         \* get_distance: [len(origin), len(destination)]
    request,          \* the urllib2.Request built
    response,         \* what urlopen returned
    json_result,
    gc_lat,           \* get_geocode: lat
    gc_lon,           \* get_geocode: lon
    results,          \* get_distance: the mapping being built
    outcome,          \* what the last call returned or raised
    \* ---- the world around the object
    events,           \* history: the effects of the call so far, in order
    requests,         \* HTTP requests issued so far
    sleeps,           \* time.sleep calls so far
    ncalls            \* method calls so far

geo_vars == <<lat_lon_tuple, lat_lon_matrix, n_closest, return_dist, units,
              cg_pc, cg_dist, cg_ret, hdm_pc, hdm_i, dist_mtrx, hdm_writes, hdm_exc>>

attrs == <<key, dailylimit, limitpersecond, geocode_result, dist_result>>

maps_vars == <<attrs, pc, args, gd_shape, request, response, json_result, gc_lat, gc_lon,
               results, outcome, events, requests, sleeps, ncalls>>

vars == <<geo_vars, maps_vars>>

-----------------------------------------------------------------------------
(* Bounds of the model *)

\* rows of a coordinate set: 0..MaxRows
MaxRows == 2
\* n_closest ranges over 0..MaxNClosest: up to one more than there are rows
MaxNClosest == MaxRows + 1
\* the column counts of the arrays handed in (2 is the documented shape)
ColCounts == {1, 2, 3}

-----------------------------------------------------------------------------
(* Fixed-point arithmetic standing for numpy's float64 *)

Scale == 10^4

\* pi * Scale
Pi == 31416

\* a / b for b > 0, rounded toward zero
QDiv(a, b) == IF a >= 0 THEN a \div b ELSE -((-a) \div b)

\* the product of two fixed-point numbers
QMul(a, b) == QDiv(a * b, Scale)

\* np.radians
Radians(deg) == QDiv(deg * Pi, 180)

\* np.sin: the Taylor series x - x^3/3! + x^5/5! - ..., term is the k-th summand
RECURSIVE SinSeries(_, _, _)
SinSeries(x, term, k) ==
    IF term = 0 THEN 0
    ELSE term + SinSeries(x, -QDiv(QMul(QDiv(QMul(term, x), 2 * k), x), 2 * k + 1), k + 1)

Sin(x) == SinSeries(x, x, 1)

\* np.cos: the Taylor series 1 - x^2/2! + x^4/4! - ...
RECURSIVE CosSeries(_, _, _)
CosSeries(x, term, k) ==
    IF term = 0 THEN 0
    ELSE term + CosSeries(x, -QDiv(QMul(QDiv(QMul(term, x), 2 * k - 1), x), 2 * k), k + 1)

Cos(x) == CosSeries(x, Scale, 1)

\* np.square
Square(x) == QMul(x, x)

\* the largest r in lo..hi with r * r <= n (lo * lo <= n)
RECURSIVE ISqrt(_, _, _)
ISqrt(n, lo, hi) ==
    IF lo >= hi THEN lo
    ELSE LET mid == (lo + hi + 1) \div 2
         IN  IF mid * mid <= n THEN ISqrt(n, mid, hi) ELSE ISqrt(n, lo, mid - 1)

\* np.sqrt, for 0 <= a
Sqrt(a) == ISqrt(a * Scale, 0, 2 * Scale)

\* the largest y in lo..hi with Sin(y) <= s (Sin(lo) <= s)
RECURSIVE ArcsinBisect(_, _, _)
ArcsinBisect(s, lo, hi) ==
    IF lo >= hi THEN lo
    ELSE LET mid == (lo + hi + 1) \div 2
         IN  IF Sin(mid) <= s THEN ArcsinBisect(s, mid, hi) ELSE ArcsinBisect(s, lo, mid - 1)

\* np.arcsin, for 0 <= s <= 1
Arcsin(s) == ArcsinBisect(s, 0, QDiv(Pi, 2))

-----------------------------------------------------------------------------
(* src/haversine.py *)

Units == {"miles", "km"}

earth_radius == [miles |-> 3959, km |-> 6371]

\* a bug the formula could have: cos(lat1) twice
haversine_a_cos1(lat1, lon1, lat2, lon2) ==
    Square(Sin(QDiv(lat2 - lat1, 2)))
      + QMul(QMul(Cos(lat1), Cos(lat1)), Square(Sin(QDiv(lon2 - lon1, 2))))

\* haversine(lat1, lon1, lat2, lon2, units), all angles in radians; the
\* result is the distance times Scale.  Line 22: a
haversine_a(lat1, lon1, lat2, lon2) ==
    Square(Sin(QDiv(lat2 - lat1, 2)))
      + QMul(QMul(Cos(lat1), Cos(lat2)), Square(Sin(QDiv(lon2 - lon1, 2))))

haversine(lat1, lon1, lat2, lon2, u) ==
    2 * earth_radius[u] * Arcsin(Sqrt(haversine_a(lat1, lon1, lat2, lon2)))

\* dist = haversine(lat, lon, lats, lons): lat2 and lon2 are arrays, the
\* result is the array of the elementwise distances
haversine_vec(lat1, lon1, lats, lons, u) ==
    [k \in DOMAIN lats |-> haversine(lat1, lon1, lats[k], lons[k], u)]

\* Coordinates (degrees) the inputs are drawn from.  Points[1] and Points[2]
\* are equally far from Points[0].
Points == [i \in 0..2 |-> CASE i = 0 -> <<40, -70>>
                           [] i = 1 -> <<50, -80>>
                           [] i = 2 -> <<50, -60>>]

PointSet == {Points[i] : i \in DOMAIN Points}

\* a row of c columns: latitude, longitude, then zeros; cut to c columns
Row(p, c) == [j \in 0..(c - 1) |-> IF j < 2 THEN p[j + 1] ELSE 0]

\* the arrays of shape (n, c)
Matrices(n, c) ==
    { [shape |-> <<n, c>>, data |-> [i \in 0..(n - 1) |-> Row(ps[i], c)]] :
        ps \in [0..(n - 1) -> PointSet] }

\* lat_lon_matrix[:, j]
Column(m, j) == [i \in 0..(m.shape[1] - 1) |-> m.data[i][j]]

\* np.radians of an array
RadiansVec(v) == [k \in DOMAIN v |-> Radians(v[k])]

\* a bug argsort could have: the indices as they are, not sorted
Argsorts_unsorted(dist) ==
    LET n == Cardinality(DOMAIN dist)
    IN  { [i \in 0..(n - 1) |-> i] }

\* a bug argsort could have: the values in descending order
Argsorts_descending(dist) ==
    LET n == Cardinality(DOMAIN dist)
    IN  { p \in [0..(n - 1) -> 0..(n - 1)] :
            /\ \A i, j \in 0..(n - 1) : i # j => p[i] # p[j]
            /\ \A i, j \in 0..(n - 1) : i < j => dist[p[i]] >= dist[p[j]] }

\* dist.argsort(): numpy's default kind is quicksort, which is not stable.
\* Every permutation of the indices that lists the values in ascending order
\* is a possible result.
Argsorts(dist) ==
    LET n == Cardinality(DOMAIN dist)
    IN  { p \in [0..(n - 1) -> 0..(n - 1)] :
            /\ \A i, j \in 0..(n - 1) : i # j => p[i] # p[j]
            /\ \A i, j \in 0..(n - 1) : i < j => dist[p[i]] <= dist[p[j]] }

\* a bug the slice could have: a[-stop:], the last elements
SliceTo_last(a, stop) ==
    LET n == Cardinality(DOMAIN a)
        m == IF stop >= 0 THEN (IF stop < n THEN stop ELSE n)
             ELSE (IF n + stop > 0 THEN n + stop ELSE 0)
    IN  [i \in 0..(m - 1) |-> a[n - m + i]]

\* a[:stop] of a one-dimensional array of n elements
SliceTo(a, stop) ==
    LET n == Cardinality(DOMAIN a)
        m == IF stop >= 0 THEN (IF stop < n THEN stop ELSE n)
             ELSE (IF n + stop > 0 THEN n + stop ELSE 0)
    IN  [i \in 0..(m - 1) |-> a[i]]

Empty == [i \in {} |-> 0]

NoRet == [kind |-> "none", min_idx |-> Empty, dist |-> Empty, exc |-> ""]

\* a bug closest_geocode could have: only the distances of the selected rows
cg_result_selected(min_idx, dist, rd) ==
    IF rd
    THEN [NoRet EXCEPT !.kind = "idx_dist", !.min_idx = min_idx,
                       !.dist = [i \in DOMAIN min_idx |-> dist[min_idx[i]]]]
    ELSE [NoRet EXCEPT !.kind = "idx", !.min_idx = min_idx]

\* lines 56-59: (min_idx, dist) when return_dist, else min_idx
cg_result(min_idx, dist, rd) ==
    IF rd
    THEN [NoRet EXCEPT !.kind = "idx_dist", !.min_idx = min_idx, !.dist = dist]
    ELSE [NoRet EXCEPT !.kind = "idx", !.min_idx = min_idx]

\* closest_geocode(lat_lon_tuple, lat_lon_matrix, n_closest, return_dist, units)
closest_geocode ==
    /\ cg_pc = "ready"
    /\ LET lat == Radians(lat_lon_tuple[1])
           lon == Radians(lat_lon_tuple[2])
           shape == lat_lon_matrix.shape
       IN  IF shape[2] <= 2
           THEN IF shape[2] < 2
                THEN \* lat_lon_matrix[:,1] is out of bounds
                     /\ cg_pc' = "raised"
                     /\ cg_ret' = [NoRet EXCEPT !.kind = "exc", !.exc = "IndexError"]
                     /\ cg_dist' = cg_dist
                ELSE LET lats == RadiansVec(Column(lat_lon_matrix, 0))
                         lons == RadiansVec(Column(lat_lon_matrix, 1))
                         dist == haversine_vec(lat, lon, lats, lons, units)
                     IN  \E order \in Argsorts(dist) :
                           LET min_idx == SliceTo(order, n_closest)
                           IN  /\ cg_dist' = dist
                               /\ cg_pc' = "returned"
                               /\ cg_ret' = cg_result(min_idx, dist, return_dist)
           ELSE /\ cg_pc' = "raised"
                /\ cg_ret' = [NoRet EXCEPT !.kind = "exc", !.exc = "ValueError"]
                /\ cg_dist' = cg_dist
    /\ UNCHANGED <<lat_lon_tuple, lat_lon_matrix, n_closest, return_dist, units,
                   hdm_pc, hdm_i, dist_mtrx, hdm_writes, hdm_exc, maps_vars>>

\* np.zeros((n, n))
Zeros(n) == [i \in 0..(n - 1) |-> [j \in 0..(n - 1) |-> 0]]

\* haversine_dist_matrix, lines 70-73 and 81-82: the shape check, then the
\* matrix of zeros
hdm_enter ==
    /\ hdm_pc = "ready"
    /\ IF lat_lon_matrix.shape[2] <= 2
       THEN /\ dist_mtrx' = Zeros(lat_lon_matrix.shape[1])
            /\ hdm_writes' = [i \in 0..(lat_lon_matrix.shape[1] - 1) |-> 0]
            /\ hdm_i' = 0
            /\ hdm_pc' = "loop"
            /\ hdm_exc' = hdm_exc
       ELSE /\ hdm_pc' = "raised"
            /\ hdm_exc' = "ValueError"
            /\ UNCHANGED <<dist_mtrx, hdm_writes, hdm_i>>
    /\ UNCHANGED <<lat_lon_tuple, lat_lon_matrix, n_closest, return_dist, units,
                   cg_pc, cg_dist, cg_ret, maps_vars>>

\* haversine_dist_matrix, lines 74-79: one pass of the loop body
hdm_row ==
    /\ hdm_pc = "loop"
    /\ hdm_i < lat_lon_matrix.shape[1]
    /\ IF lat_lon_matrix.shape[2] < 2
       THEN \* X[i, 1] is out of bounds
            /\ hdm_pc' = "raised"
            /\ hdm_exc' = "IndexError"
            /\ UNCHANGED <<dist_mtrx, hdm_writes, hdm_i>>
       ELSE LET lat_i == Radians(lat_lon_matrix.data[hdm_i][0])
                lon_i == Radians(lat_lon_matrix.data[hdm_i][1])
                lats == RadiansVec(Column(lat_lon_matrix, 0))
                lons == RadiansVec(Column(lat_lon_matrix, 1))
            IN  /\ dist_mtrx' = [dist_mtrx EXCEPT ![hdm_i] =
                                     haversine_vec(lat_i, lon_i, lats, lons, units)]
                /\ hdm_writes' = [hdm_writes EXCEPT ![hdm_i] = @ + 1]
                /\ hdm_i' = hdm_i + 1
                /\ UNCHANGED <<hdm_pc, hdm_exc>>
    /\ UNCHANGED <<lat_lon_tuple, lat_lon_matrix, n_closest, return_dist, units,
                   cg_pc, cg_dist, cg_ret, maps_vars>>

\* haversine_dist_matrix, line 80: the loop is over, return dist_mtrx
hdm_return ==
    /\ hdm_pc = "loop"
    /\ hdm_i >= lat_lon_matrix.shape[1]
    /\ hdm_pc' = "returned"
    /\ UNCHANGED <<lat_lon_tuple, lat_lon_matrix, n_closest, return_dist, units,
                   cg_pc, cg_dist, cg_ret, hdm_i, dist_mtrx, hdm_writes, hdm_exc,
                   maps_vars>>

-----------------------------------------------------------------------------
(* src/googleAPI.py *)

(* Python values.  A value is its type, and what it holds: a string, a     *)
(* number (fixed point), or the items of a list or tuple.                  *)
PyStr(str) == [t |-> "str", s |-> str, n |-> 0, items |-> <<>>]
PyFloat(num) == [t |-> "float", s |-> "", n |-> num, items |-> <<>>]
PyInt(num) == [t |-> "int", s |-> "", n |-> num, items |-> <<>>]
PyList(xs) == [t |-> "list", s |-> "", n |-> 0, items |-> xs]
PyTuple(xs) == [t |-> "tuple", s |-> "", n |-> 0, items |-> xs]
PyNone == [t |-> "NoneType", s |-> "", n |-> 0, items |-> <<>>]

\* a bug the type check could have: anything that is not None passes
isinstance_not_none(v, type) == v.t # "NoneType"

\* isinstance(v, type)
isinstance(v, type) == v.t = type

\* a JSON document of the provider; the fields a reply lacks are empty
NoJson == [status |-> "", results |-> Empty, rows |-> Empty,
           origin_addresses |-> Empty, destination_addresses |-> Empty]

\* an attribute that is not set yet
Unset == [NoJson EXCEPT !.status = "(unset)"]

NoOutcome == [kind |-> "none", exc |-> "", value |-> Empty]
Raise(e) == [kind |-> "raise", exc |-> e, value |-> Empty]
Return(v) == [kind |-> "return", exc |-> "", value |-> v]

NoArgs == [op |-> "", address |-> PyNone, origin |-> PyNone, destination |-> PyNone,
           optional_args |-> Empty, time_delay |-> 0, error |-> PyNone]

NoRequest == [url |-> "", params |-> Empty]

Event(e, d) == [e |-> e, d |-> d]

\* d1.update(d2) of two dictionaries
Update(d1, d2) ==
    [k \in DOMAIN d1 \cup DOMAIN d2 |-> IF k \in DOMAIN d2 THEN d2[k] ELSE d1[k]]

GEOCODE_URL == "https://maps.googleapis.com/maps/api/geocode/json?"
DIST_MATRIX_URL == "https://maps.googleapis.com/maps/api/distancematrix/json?"

(* A string sent to the provider is kept as the sequence of its parts      *)
(* between '|' characters, which is how the provider reads a parameter.    *)
\* a string without '|'
Parts(str) == <<str>>

\* '|'.join(xs) of a list of strings without '|'
Join(xs) == [i \in 1..Len(xs) |-> xs[i].s]

-----------------------------------------------------------------------------
(* The inputs and the provider's replies the model draws from *)

\* method calls in a run
MaxCalls == 2
\* the longest list of origins or destinations
MaxList == 2

Places == [i \in 0..3 |-> CASE i = 0 -> "Boston, MA"
                           [] i = 1 -> "Burlington, VT"
                           [] i = 2 -> "New York, NY"
                           [] i = 3 -> "Waltham, MA"]

\* the list of the first n places
PlaceList(n) == [i \in 1..n |-> PyStr(Places[(i - 1) % 4])]

\* what a caller hands in as an address, an origin or a destination
Addresses == {PyStr(Places[0]), PyInt(7), PyList(PlaceList(1)), PyNone}

Endpoints ==
    {PyStr(Places[0]), PyInt(7), PyTuple(PlaceList(1)), PyList(<<PyInt(7)>>)}
      \cup {PyList(PlaceList(n)) : n \in 0..MaxList}

\* optional_args: None, or the bounds of the example (line 122)
OptionalArgs ==
    {Empty, [k \in {"bounds"} |-> <<"41.189388,-73.561282", "42.978918,-69.672122">>]}

\* time_delay, in tenths of a second; 5 is the default
Delays == {5, 10}

\* error; 'Error' is the default
Sentinels == {PyStr("Error"), PyNone}

NotOK == {"ZERO_RESULTS", "OVER_QUERY_LIMIT"}

Location(la, ln) == [geometry |-> [location |-> [lat |-> la, lng |-> ln]]]

\* the replies of the geocoding endpoint: OK with one or two results, or an
\* error status and no result
GeocodeReplies ==
    {[NoJson EXCEPT !.status = "OK", !.results = rs] :
        rs \in {[i \in 0..0 |-> Location(423601, -710589)],
                [i \in 0..1 |-> IF i = 0 THEN Location(444759, -732121)
                                ELSE Location(423601, -710589)]}}
      \cup {[NoJson EXCEPT !.status = st] : st \in NotOK}

\* the element of row i, column j: seconds and metres
Element(i, j) == [duration |-> [value |-> 90 + 600 * i + 60 * j],
                  distance |-> [value |-> 1000 + 300 * i + 100 * j]]

\* the replies of the distance matrix endpoint to a request for the origins
\* os and the destinations ds: OK with one row per origin and one element
\* per destination, or an error status
DistanceReplies(os, ds) ==
    {[NoJson EXCEPT
        !.status = "OK",
        !.rows = [i \in 0..(Len(os) - 1) |->
                    [elements |-> [j \in 0..(Len(ds) - 1) |-> Element(i, j)]]],
        !.origin_addresses = [i \in 0..(Len(os) - 1) |-> os[i + 1]],
        !.destination_addresses = [j \in 0..(Len(ds) - 1) |-> ds[j + 1]]]}
      \cup {[NoJson EXCEPT !.status = st] : st \in NotOK}

-----------------------------------------------------------------------------
(* GoogleMapsAPI.get_geocode *)

\* lines 16-29 and 55-56: the call, and the check of address
get_geocode_enter ==
    /\ pc = "idle"
    /\ ncalls < MaxCalls
    /\ \E address \in Addresses, optional_args \in OptionalArgs,
          time_delay \in Delays, error \in Sentinels :
         /\ args' = [NoArgs EXCEPT !.op = "get_geocode", !.address = address,
                                   !.optional_args = optional_args,
                                   !.time_delay = time_delay, !.error = error]
         /\ IF isinstance(address, "str")
            THEN pc' = "gc_urlopen" /\ outcome' = NoOutcome
            ELSE pc' = "idle" /\ outcome' = Raise("TypeError: address must be a string")
    /\ ncalls' = ncalls + 1
    /\ events' = <<>>
    /\ gd_shape' = <<1, 1>>
    /\ request' = NoRequest
    /\ response' = NoJson
    /\ json_result' = NoJson
    /\ gc_lat' = PyNone
    /\ gc_lon' = PyNone
    /\ results' = Empty
    /\ UNCHANGED <<attrs, requests, sleeps, geo_vars>>

\* lines 30-41: the query parameters, the request, urlopen
gc_urlopen ==
    /\ pc = "gc_urlopen"
    /\ request' = [url |-> GEOCODE_URL,
                   params |-> Update([k \in {"key", "address"} |->
                                         IF k = "key" THEN Parts(key)
                                         ELSE Parts(args.address.s)],
                                     args.optional_args)]
    /\ requests' = requests + 1
    /\ events' = Append(events, Event("request", 0))
    /\ \/ \E reply \in GeocodeReplies :
            /\ response' = reply
            /\ pc' = "gc_loads"
            /\ UNCHANGED outcome
       \/ \* urlopen raises: the provider cannot be reached
          /\ pc' = "idle"
          /\ outcome' = Raise("URLError")
          /\ UNCHANGED response
    /\ UNCHANGED <<attrs, args, gd_shape, json_result, gc_lat, gc_lon, results, sleeps, ncalls,
                   geo_vars>>

\* lines 42-43: json_result = json.loads(...); self.geocode_result = json_result
gc_loads ==
    /\ pc = "gc_loads"
    /\ json_result' = response
    /\ geocode_result' = response
    /\ events' = Append(events, Event("store", 0))
    /\ pc' = "gc_status"
    /\ UNCHANGED <<key, dailylimit, limitpersecond, dist_result, args, gd_shape, request,
                   response, gc_lat, gc_lon, results, outcome, requests, sleeps, ncalls,
                   geo_vars>>

\* a bug the method could have: the delay only after an OK reply
gc_status_sleep_if_ok ==
    /\ pc = "gc_status"
    /\ IF json_result.status = "OK"
       THEN /\ gc_lon' = PyFloat(json_result.results[0].geometry.location.lng)
            /\ gc_lat' = PyFloat(json_result.results[0].geometry.location.lat)
            /\ pc' = "gc_sleep"
       ELSE /\ gc_lon' = args.error
            /\ gc_lat' = args.error
            /\ pc' = "gc_return"
    /\ UNCHANGED <<attrs, args, gd_shape, request, response, json_result, results, outcome,
                   events, requests, sleeps, ncalls, geo_vars>>

\* lines 45-52: the location of the first result, or error twice
gc_status ==
    /\ pc = "gc_status"
    /\ IF json_result.status = "OK"
       THEN /\ gc_lon' = PyFloat(json_result.results[0].geometry.location.lng)
            /\ gc_lat' = PyFloat(json_result.results[0].geometry.location.lat)
       ELSE /\ gc_lon' = args.error
            /\ gc_lat' = args.error
    /\ pc' = "gc_sleep"
    /\ UNCHANGED <<attrs, args, gd_shape, request, response, json_result, results, outcome,
                   events, requests, sleeps, ncalls, geo_vars>>

\* line 53: time.sleep(time_delay)
gc_sleep ==
    /\ pc = "gc_sleep"
    /\ sleeps' = sleeps + 1
    /\ events' = Append(events, Event("sleep", args.time_delay))
    /\ pc' = "gc_return"
    /\ UNCHANGED <<attrs, args, gd_shape, request, response, json_result, gc_lat, gc_lon, results,
                   outcome, requests, ncalls, geo_vars>>

\* a bug the return could have: the two coordinates swapped
geocode_dict_swapped(lo, la) ==
    [k \in {"longitude", "latitude"} |-> IF k = "longitude" THEN la ELSE lo]

\* line 54: {'longitude': lon, 'latitude': lat}
geocode_dict(lo, la) ==
    [k \in {"longitude", "latitude"} |-> IF k = "longitude" THEN lo ELSE la]

gc_return ==
    /\ pc = "gc_return"
    /\ outcome' = Return(geocode_dict(gc_lon, gc_lat))
    /\ pc' = "idle"
    /\ UNCHANGED <<attrs, args, gd_shape, request, response, json_result, gc_lat, gc_lon, results,
                   events, requests, sleeps, ncalls, geo_vars>>

-----------------------------------------------------------------------------
(* GoogleMapsAPI.get_distance *)

\* lines 75-81 (origin) and 82-88 (destination): what is sent for v, how many
\* places it counts for, and the exception raised, "" when none
Marshal(v, name) ==
    IF isinstance(v, "list")
    THEN IF \E i \in 1..Len(v.items) : ~isinstance(v.items[i], "str")
         THEN [exc |-> "TypeError: sequence item: expected string", sent |-> <<>>, len |-> 1]
         ELSE [exc |-> "", sent |-> Join(v.items), len |-> Len(v.items)]
    ELSE IF isinstance(v, "str")
         THEN [exc |-> "", sent |-> Parts(v.s), len |-> 1]
         ELSE [exc |-> "TypeError: must be a string or list/tuple of strings: " \o name,
               sent |-> <<>>, len |-> 1]

\* lines 58-88: the call, and the checks of origin, then of destination
get_distance_enter ==
    /\ pc = "idle"
    /\ ncalls < MaxCalls
    /\ \E origin \in Endpoints, destination \in Endpoints,
          optional_args \in OptionalArgs, time_delay \in Delays :
         LET o == Marshal(origin, "origin")
             d == Marshal(destination, "destination")
         IN  /\ args' = [NoArgs EXCEPT !.op = "get_distance", !.origin = origin,
                                       !.destination = destination,
                                       !.optional_args = optional_args,
                                       !.time_delay = time_delay,
                                       !.error = PyStr("Error")]
             /\ IF o.exc # ""
                THEN /\ pc' = "idle"
                     /\ outcome' = Raise(o.exc)
                     /\ gd_shape' = <<1, 1>>
                     /\ request' = NoRequest
                ELSE IF d.exc # ""
                     THEN /\ pc' = "idle"
                          /\ outcome' = Raise(d.exc)
                          /\ gd_shape' = <<o.len, 1>>
                          /\ request' = NoRequest
                     ELSE /\ pc' = "gd_urlopen"
                          /\ outcome' = NoOutcome
                          /\ gd_shape' = <<o.len, d.len>>
                          \* orign and dest, kept in the request being built
                          /\ request' = [url |-> "",
                                         params |-> [k \in {"origins", "destinations"} |->
                                                       IF k = "origins" THEN o.sent
                                                       ELSE d.sent]]
    /\ ncalls' = ncalls + 1
    /\ events' = <<>>
    /\ response' = NoJson
    /\ json_result' = NoJson
    /\ gc_lat' = PyNone
    /\ gc_lon' = PyNone
    /\ results' = Empty
    /\ UNCHANGED <<attrs, requests, sleeps, geo_vars>>

\* lines 90-101: the query parameters, the request, urlopen
gd_urlopen ==
    /\ pc = "gd_urlopen"
    /\ request' = [url |-> DIST_MATRIX_URL,
                   params |-> Update([k \in {"key", "origins", "destinations"} |->
                                         IF k = "key" THEN Parts(key)
                                         ELSE request.params[k]],
                                     args.optional_args)]
    /\ requests' = requests + 1
    /\ events' = Append(events, Event("request", 0))
    /\ \/ \E reply \in DistanceReplies(request.params["origins"],
                                       request.params["destinations"]) :
            /\ response' = reply
            /\ pc' = "gd_loads"
            /\ UNCHANGED outcome
       \/ \* urlopen raises: the provider cannot be reached
          /\ pc' = "idle"
          /\ outcome' = Raise("URLError")
          /\ UNCHANGED response
    /\ UNCHANGED <<attrs, args, gd_shape, json_result, gc_lat, gc_lon, results, sleeps, ncalls,
                   geo_vars>>

\* lines 102-103: json_result = json.loads(...); self.dist_result = json_result
gd_loads ==
    /\ pc = "gd_loads"
    /\ json_result' = response
    /\ dist_result' = response
    /\ events' = Append(events, Event("store", 0))
    /\ pc' = "gd_status"
    /\ UNCHANGED <<key, dailylimit, limitpersecond, geocode_result, args, gd_shape, request,
                   response, gc_lat, gc_lon, results, outcome, requests, sleeps, ncalls,
                   geo_vars>>

Digit == <<"0", "1", "2", "3", "4", "5", "6", "7", "8", "9">>

\* str(i) for i >= 0: the sequence of its decimal digits
RECURSIVE str(_)
str(i) == IF i < 10 THEN <<Digit[i + 1]>> ELSE str(i \div 10) \o <<Digit[(i % 10) + 1]>>

\* a bug the key could have: i and j the wrong way round
result_key_swapped(i, j) == <<"origin-">> \o str(j) \o <<"_destination-">> \o str(i)

\* line 110: 'origin-'+str(i)+'_destination-'+str(j)
result_key(i, j) == <<"origin-">> \o str(i) \o <<"_destination-">> \o str(j)

\* lines 110-113: the entry of origin i and destination j; the minutes and
\* the miles are fixed-point numbers
result_entry(json, i, j) ==
    [duration |-> QDiv(json.rows[i].elements[j].duration.value * Scale, 60),
     distance |-> QDiv(json.rows[i].elements[j].distance.value * 621371, 10^5),
     origin |-> json.origin_addresses[i],
     destination |-> json.destination_addresses[j]]

\* lines 105-115: the mapping, filled for every i and j when the status is OK
gd_status ==
    /\ pc = "gd_status"
    /\ IF json_result.status = "OK"
       THEN results' =
               LET ij == (0..(gd_shape[1] - 1)) \X (0..(gd_shape[2] - 1))
               IN  [k \in {result_key(x[1], x[2]) : x \in ij} |->
                      LET x == CHOOSE y \in ij : result_key(y[1], y[2]) = k
                      IN  result_entry(json_result, x[1], x[2])]
       ELSE results' = Empty
    /\ pc' = "gd_sleep"
    /\ UNCHANGED <<attrs, args, gd_shape, request, response, json_result, gc_lat, gc_lon, outcome,
                   events, requests, sleeps, ncalls, geo_vars>>

\* line 116: time.sleep(time_delay)
gd_sleep ==
    /\ pc = "gd_sleep"
    /\ sleeps' = sleeps + 1
    /\ events' = Append(events, Event("sleep", args.time_delay))
    /\ pc' = "gd_return"
    /\ UNCHANGED <<attrs, args, gd_shape, request, response, json_result, gc_lat, gc_lon, results,
                   outcome, requests, ncalls, geo_vars>>

\* line 117: return results
gd_return ==
    /\ pc = "gd_return"
    /\ outcome' = Return(results)
    /\ pc' = "idle"
    /\ UNCHANGED <<attrs, args, gd_shape, request, response, json_result, gc_lat, gc_lon, results,
                   events, requests, sleeps, ncalls, geo_vars>>

-----------------------------------------------------------------------------
(* The specifications *)

\* the arguments of the calls of src/haversine.py
GeoInputs ==
    /\ lat_lon_tuple \in PointSet
    /\ lat_lon_matrix \in UNION { Matrices(n, c) : n \in 0..MaxRows, c \in ColCounts }
    /\ n_closest \in 0..MaxNClosest
    /\ return_dist \in BOOLEAN
    /\ units \in Units

\* no function of src/haversine.py has been called
GeoReady ==
    /\ cg_pc = "ready"
    /\ cg_dist = Empty
    /\ cg_ret = NoRet
    /\ hdm_pc = "ready"
    /\ hdm_i = 0
    /\ dist_mtrx = Empty
    /\ hdm_writes = Empty
    /\ hdm_exc = ""

\* GoogleMapsAPI.__init__(key), lines 10-14, and no method called yet
MapsInit ==
    /\ key = "google_maps_api_key"
    /\ dailylimit = 2500
    /\ limitpersecond = 50
    /\ geocode_result = Unset
    /\ dist_result = Unset
    /\ pc = "idle"
    /\ args = NoArgs
    /\ gd_shape = <<1, 1>>
    /\ request = NoRequest
    /\ response = NoJson
    /\ json_result = NoJson
    /\ gc_lat = PyNone
    /\ gc_lon = PyNone
    /\ results = Empty
    /\ outcome = NoOutcome
    /\ events = <<>>
    /\ requests = 0
    /\ sleeps = 0
    /\ ncalls = 0

\* src/haversine.py: the two functions are called, each once and in either
\* order, on the same array and unit, as the example of lines 85-102 does
Init == GeoInputs /\ GeoReady /\ MapsInit

Next ==
    \/ closest_geocode
    \/ hdm_enter
    \/ hdm_row
    \/ hdm_return

Spec == Init /\ [][Next]_vars

\* src/googleAPI.py: a client is built and its methods are called, one call
\* after the other, as the example of lines 119-128 does
InitMaps ==
    /\ lat_lon_tuple = Points[0]
    /\ lat_lon_matrix \in Matrices(0, 2)
    /\ n_closest = 1
    /\ return_dist = FALSE
    /\ units = "miles"
    /\ GeoReady
    /\ MapsInit

NextMaps ==
    \/ get_geocode_enter
    \/ gc_urlopen
    \/ gc_loads
    \/ gc_status
    \/ gc_sleep
    \/ gc_return
    \/ get_distance_enter
    \/ gd_urlopen
    \/ gd_loads
    \/ gd_status
    \/ gd_sleep
    \/ gd_return

SpecMaps == InitMaps /\ [][NextMaps]_vars

-----------------------------------------------------------------------------
(* Properties of src/haversine.py *)

NRows == lat_lon_matrix.shape[1]
NCols == lat_lon_matrix.shape[2]

RowIdx == 0..(NRows - 1)

\* the distance from p to q (degrees) in the unit u, for all the coordinates
\* the inputs are drawn from
Distance ==
    [u \in Units, p \in PointSet, q \in PointSet |->
        haversine(Radians(p[1]), Radians(p[2]), Radians(q[1]), Radians(q[2]), u)]

\* the distance from the query to row k of a two-column lat_lon_matrix
QueryDist(k) ==
    Distance[units, lat_lon_tuple, <<lat_lon_matrix.data[k][0], lat_lon_matrix.data[k][1]>>]

Size(a) == Cardinality(DOMAIN a)

Min(a, b) == IF a < b THEN a ELSE b

Selected == { cg_ret.min_idx[i] : i \in DOMAIN cg_ret.min_idx }

\* C1: for n_closest >= 1 and a set of n rows of two columns, closest_geocode
\* raises nothing and returns min(n_closest, n) distinct row indices, in
\* ascending order of distance to the query, and no row left out is strictly
\* closer than a row returned.
C1_NClosest ==
    (NCols = 2 /\ cg_pc # "ready" /\ n_closest >= 1) =>
        LET r == cg_ret.min_idx
        IN  /\ cg_pc = "returned"
            /\ DOMAIN r = 0..(Min(n_closest, NRows) - 1)
            /\ \A i \in DOMAIN r : r[i] \in RowIdx
            /\ \A i, j \in DOMAIN r : i # j => r[i] # r[j]
            /\ \A i, j \in DOMAIN r : i < j => QueryDist(r[i]) <= QueryDist(r[j])
            /\ \A k \in RowIdx \ Selected :
                  \A i \in DOMAIN r : ~(QueryDist(k) < QueryDist(r[i]))

\* n_closest exceeds n = 2, both rows come back, and row 1 is the closer one
C1_Witness ==
    /\ cg_pc = "returned" /\ NCols = 2 /\ NRows = 2 /\ n_closest > NRows
    /\ Size(cg_ret.min_idx) = 2
    /\ cg_ret.min_idx[0] = 1
    /\ QueryDist(1) < QueryDist(0)

\* C2 as stated: of two rows equally far from the query, the one of the
\* smaller index comes first, and is the one kept when only one fits.
C2_StableTies ==
    (NCols = 2 /\ cg_pc = "returned") =>
        LET r == cg_ret.min_idx
        IN  \A a, b \in RowIdx :
              (a < b /\ QueryDist(a) = QueryDist(b) /\ b \in Selected) =>
                 \E i, j \in DOMAIN r : i < j /\ r[i] = a /\ r[j] = b

\* C2 amended: a row strictly closer to the query than a returned row is
\* returned too, and before it; rows equally far come in either order.
C2_StrictOrder ==
    (NCols = 2 /\ cg_pc = "returned") =>
        LET r == cg_ret.min_idx
        IN  \A a, b \in RowIdx :
              (QueryDist(a) < QueryDist(b) /\ b \in Selected) =>
                 \E i, j \in DOMAIN r : i < j /\ r[i] = a /\ r[j] = b

\* two rows equally far from the query are returned, the one of the larger
\* index first
C2_Witness ==
    /\ cg_pc = "returned" /\ NCols = 2 /\ NRows >= 2
    /\ Size(cg_ret.min_idx) >= 2
    /\ cg_ret.min_idx[0] > cg_ret.min_idx[1]
    /\ QueryDist(cg_ret.min_idx[0]) = QueryDist(cg_ret.min_idx[1])

C4_ExactlyTwoColumns ==
    /\ cg_pc # "ready" =>
          IF NCols = 2
          THEN cg_pc = "returned"
          ELSE cg_pc = "raised" /\ cg_ret.exc = "ValueError" /\ cg_dist = Empty
    /\ hdm_pc # "ready" =>
          IF NCols = 2
          THEN hdm_pc \in {"loop", "returned"}
          ELSE hdm_pc = "raised" /\ hdm_exc = "ValueError" /\ dist_mtrx = Empty

\* C5: the matrix haversine_dist_matrix returns is n x n, symmetric, zero on
\* the diagonal, and each of its rows was assigned exactly once.
C5_SymmetricZeroDiagonal ==
    hdm_pc = "returned" =>
        /\ DOMAIN dist_mtrx = RowIdx
        /\ \A i \in RowIdx : DOMAIN dist_mtrx[i] = RowIdx
        /\ \A i, j \in RowIdx : dist_mtrx[i][j] = dist_mtrx[j][i]
        /\ \A i \in RowIdx : dist_mtrx[i][i] = 0
        /\ \A i \in RowIdx : hdm_writes[i] = 1

\* a matrix of two distinct points of different latitude is returned
C5_Witness ==
    /\ hdm_pc = "returned" /\ NRows = 2 /\ NCols = 2
    /\ lat_lon_matrix.data[0][0] # lat_lon_matrix.data[1][0]
    /\ dist_mtrx[0][1] > 0
    /\ hdm_writes[0] = 1 /\ hdm_writes[1] = 1

\* the rows of lat_lon_matrix that are the query coordinate
QueryRows ==
    { i \in RowIdx : /\ lat_lon_matrix.data[i][0] = lat_lon_tuple[1]
                     /\ lat_lon_matrix.data[i][1] = lat_lon_tuple[2] }

\* the first index at which the array v is smallest
FirstArgmin(v) ==
    CHOOSE k \in DOMAIN v :
        /\ \A j \in DOMAIN v : v[k] <= v[j]
        /\ \A j \in DOMAIN v : j < k => v[j] > v[k]

BothReturned == cg_pc = "returned" /\ hdm_pc = "returned" /\ NCols = 2

\* C6 as stated: for the query S[i], dist is row i of the matrix, and with
\* n_closest = 1 the index returned is the first argmin of that row.
C6_RowAndFirstArgmin ==
    BothReturned =>
        \A i \in QueryRows :
            /\ cg_dist = dist_mtrx[i]
            /\ n_closest = 1 => cg_ret.min_idx[0] = FirstArgmin(dist_mtrx[i])

\* C6 amended: for the query S[i], dist is row i of the matrix, and with
\* n_closest = 1 the index returned is one at which that row is smallest.
C6_RowAndArgmin ==
    BothReturned =>
        \A i \in QueryRows :
            /\ cg_dist = dist_mtrx[i]
            /\ n_closest = 1 =>
                  /\ DOMAIN cg_ret.min_idx = {0}
                  /\ \A j \in RowIdx :
                        dist_mtrx[i][cg_ret.min_idx[0]] <= dist_mtrx[i][j]

\* the query is row 1 of two distinct rows, and row 1 is what comes back
C6_Witness ==
    /\ BothReturned /\ NRows = 2 /\ n_closest = 1
    /\ QueryRows = {1}
    /\ cg_ret.min_idx[0] = 1
    /\ cg_dist = dist_mtrx[1]
    /\ dist_mtrx[1][0] > 0

-----------------------------------------------------------------------------
(* Properties of src/googleAPI.py *)

\* the last call was op and has returned
Returned(op) == pc = "idle" /\ args.op = op /\ outcome.kind = "return"

\* C7: get_geocode of a string returns a mapping of exactly latitude and
\* longitude: the location of the first result when the status is OK, the
\* caller's error value twice for any other status; and it raises only for
\* an address that is no string or a provider that cannot be reached, never
\* for a status.
C7_GeocodeOrSentinel ==
    /\ Returned("get_geocode") =>
         /\ isinstance(args.address, "str")
         /\ DOMAIN outcome.value = {"latitude", "longitude"}
         /\ IF geocode_result.status = "OK"
            THEN /\ outcome.value["latitude"] =
                       PyFloat(geocode_result.results[0].geometry.location.lat)
                 /\ outcome.value["longitude"] =
                       PyFloat(geocode_result.results[0].geometry.location.lng)
            ELSE /\ outcome.value["latitude"] = args.error
                 /\ outcome.value["longitude"] = args.error
    /\ (args.op = "get_geocode" /\ outcome.kind = "raise") =>
         /\ json_result = NoJson
         /\ outcome.exc \in {"TypeError: address must be a string", "URLError"}

\* get_geocode has returned the caller's error value, None, for a status
\* that is not OK
C7_Witness ==
    /\ Returned("get_geocode")
    /\ geocode_result.status = "ZERO_RESULTS"
    /\ args.error = PyNone
    /\ outcome.value["latitude"] = PyNone
    /\ sleeps >= 1

\* how many places v counts for: a list its length, a string 1
Count(v) == IF v.t = "list" THEN Len(v.items) ELSE 1

\* the keys "origin-i_destination-j" for i < p and j < q
Keys(p, q) == { <<"origin-">> \o str(i) \o <<"_destination-">> \o str(j) :
                  i \in 0..(p - 1), j \in 0..(q - 1) }

\* the mapping get_distance returned has the keys of p origins and q
\* destinations when the status is OK, and is empty otherwise
KeysAsRequested ==
    LET p == Count(args.origin)
        q == Count(args.destination)
    IN  IF dist_result.status = "OK"
        THEN /\ DOMAIN outcome.value = Keys(p, q)
             /\ Cardinality(DOMAIN outcome.value) = p * q
        ELSE outcome.value = Empty

\* the entry of origin i and destination j holds, under the names f, the
\* minutes, the miles and the two addresses of row i, element j of the reply
EntryOf(f, i, j) ==
    LET e == outcome.value[<<"origin-">> \o str(i) \o <<"_destination-">> \o str(j)]
        el == dist_result.rows[i].elements[j]
    IN  /\ DOMAIN e = {f[1], f[2], f[3], f[4]}
        /\ e[f[1]] = QDiv(el.duration.value * Scale, 60)
        /\ e[f[2]] = QDiv(el.distance.value * 621371, 10^5)
        /\ e[f[3]] = dist_result.origin_addresses[i]
        /\ e[f[4]] = dist_result.destination_addresses[j]

EntriesNamed(f) ==
    dist_result.status = "OK" =>
        \A i \in 0..(Count(args.origin) - 1), j \in 0..(Count(args.destination) - 1) :
            EntryOf(f, i, j)

TypeErrors == {"TypeError: address must be a string",
               "TypeError: must be a string or list/tuple of strings: origin",
               "TypeError: must be a string or list/tuple of strings: destination"}

\* the TypeError the checks of the arguments a ask for, "" when none
TypeErrorOf(a) ==
    IF a.op = "get_geocode"
    THEN IF a.address.t = "str" THEN "" ELSE "TypeError: address must be a string"
    ELSE IF a.origin.t \notin {"str", "list"}
         THEN "TypeError: must be a string or list/tuple of strings: origin"
         ELSE IF a.destination.t \notin {"str", "list"}
                 /\ ~(\E i \in 1..Len(a.origin.items) : a.origin.items[i].t # "str")
              THEN "TypeError: must be a string or list/tuple of strings: destination"
              ELSE ""

\* the arguments a are of a type the method does not take
Mistyped(a) ==
    IF a.op = "get_geocode" THEN a.address.t # "str"
    ELSE a.origin.t \notin {"str", "list"} \/ a.destination.t \notin {"str", "list"}

EffectsAt(at) ==
    LET req == <<Event("request", 0)>>
        sto == req \o <<Event("store", 0)>>
        all == sto \o <<Event("sleep", args.time_delay)>>
    IN  CASE at \in {"gc_urlopen", "gd_urlopen"} -> {<<>>}
          [] at \in {"gc_loads", "gd_loads"} -> {req}
          [] at \in {"gc_status", "gd_status", "gc_sleep", "gd_sleep"} -> {sto}
          [] at \in {"gc_return", "gd_return"} -> {all}
          [] OTHER -> IF outcome.kind = "return" THEN {all}
                      ELSE IF outcome.exc = "URLError" THEN {req}
                      ELSE {<<>>}

=============================================================================
